---- MODULE Spec2Model ----
(***************************************************************************)
(* The two 3D-model cleanup scripts of supabase/functions/                 *)
(* cleanup-old-3d-models: delete-all-3d-models.py (the sweep) and          *)
(* test-delete-10.py (the 10-record test).  One run of one script's main() *)
(* is a behaviour; every call to the hosted service (a catalog query, a    *)
(* storage remove, a catalog update) is one step, together with the        *)
(* straight-line code that follows it up to the next call.                 *)
(***************************************************************************)
EXTENDS Integers, Sequences, FiniteSets, TLC

\* ------------------------------------------------------------------ bounds

\* Rows of pending_products in the modelled catalog.
MaxRecords == 4

\* Page size of the sweep (1000 in the source, scaled down; every formula is
\* stated in terms of the name).
BATCH_SIZE == 3

\* Keys per storage remove call of the sweep (100 in the source, scaled down).
STORAGE_BATCH_SIZE == 2

\* batch_num is exact below this number of page fetches; at the bound it stays
\* put ("MaxBatches or more"), so that a loop that never ends is a cycle.
MaxBatches == 3

\* The interrupts of the operator that extract_file_path swallows in a run.
MaxSwallowed == 1

\* The value of the totals and of batch_num once they are no longer followed
\* (see followed).
Untracked == 0 - 1

\* ------------------------------------------------------- program constants

\* limit(10) of the test script's query.
TEST_LIMIT == 10

\* timedelta(days=7), timedelta(days=14); Now is the day main() runs.
SEVEN_DAYS == 7
FOURTEEN_DAYS == 14
Now == 20

\* ------------------------------------------------------------------ values

\* Python's None (glb_url NULL, extract_file_path's failure).
None == <<"None">>

Min(a, b) == IF a < b THEN a ELSE b

Sat(n, cap) == IF n > cap THEN cap ELSE n

Range(s) == {s[j] : j \in 1..Len(s)}

\* ------------------------------------------------------ the operator's input

\* What input() returns, as a sequence of characters.
Chars(w) ==
  CASE w = "DELETE ALL"   -> <<"D","E","L","E","T","E"," ","A","L","L">>
    [] w = " DELETE ALL\\xa0" ->
         <<" ","D","E","L","E","T","E"," ","A","L","L","\\xa0">>
    [] w = "delete all"   -> <<"d","e","l","e","t","e"," ","a","l","l">>
    [] w = "DELETEALL"    -> <<"D","E","L","E","T","E","A","L","L">>
    [] w = "yes"          -> <<"y","e","s">>
    [] w = "\\x0cYES\r"   -> <<"\f","Y","E","S","\r">>
    [] w = "y es"         -> <<"y"," ","e","s">>
    [] w = "no"           -> <<"n","o">>
    [] w = ""             -> <<>>

Inputs ==
  {Chars(w) : w \in {"DELETE ALL", " DELETE ALL\\xa0", "delete all",
                     "DELETEALL", "yes", "y es", "no", "",
                     "\\x0cYES\r"}}

\* The characters str.isspace() holds of, which strip() with no argument
\* drops.  A character with no escape of its own in a TLA+ string is written
\* as Python writes it, backslash and all: "\\x0b" stands for the one
\* character '\x0b'.
Whitespace ==
  {" ", "\t", "\n", "\r", "\f", "\\x0b", "\\x1c", "\\x1d", "\\x1e", "\\x1f",
   "\\x85", "\\xa0", "\\u1680", "\\u2000", "\\u2001", "\\u2002", "\\u2003",
   "\\u2004", "\\u2005", "\\u2006", "\\u2007", "\\u2008", "\\u2009",
   "\\u200a", "\\u2028", "\\u2029", "\\u202f", "\\u205f", "\\u3000"}

\* str.strip(): drop the leading and the trailing whitespace.
RECURSIVE lstrip(_)
lstrip(s) ==
  IF s # <<>> /\ Head(s) \in Whitespace THEN lstrip(Tail(s)) ELSE s

RECURSIVE rstrip(_)
rstrip(s) ==
  IF s # <<>> /\ s[Len(s)] \in Whitespace
  THEN rstrip(SubSeq(s, 1, Len(s) - 1)) ELSE s

strip(s) == rstrip(lstrip(s))

\* str.lower(), on the letters the inputs use.
lowerChar(c) ==
  CASE c = "A" -> "a" [] c = "D" -> "d" [] c = "E" -> "e" [] c = "L" -> "l"
    [] c = "S" -> "s" [] c = "T" -> "t" [] c = "Y" -> "y" [] OTHER -> c

lower(s) == [j \in 1..Len(s) |-> lowerChar(s[j])]

\* The literal each script compares the input with.
Literal(sc) == IF sc = "sweep" THEN Chars("DELETE ALL") ELSE Chars("yes")

\* confirm = input(...).strip()          (sweep)
\* confirm = input(...).strip().lower()  (test)
ReadConfirm(sc, raw) == IF sc = "sweep" THEN strip(raw) ELSE lower(strip(raw))

\* The mutant of Accepted: a gate that lets every input through.
AcceptedAlways(sc, raw) == TRUE

\* not (confirm != 'DELETE ALL'), not (confirm != 'yes')
Accepted(sc, raw) == ReadConfirm(sc, raw) = Literal(sc)

\* ------------------------------------------------------------------- URLs

\* A URL is a sequence of tokens: "PF" is the text '/product-files/', "3D" the
\* text '3d-models', "Q" the '?' that starts the query string, every other
\* token a piece of text holding none of them.
Names == <<"a", "b", "c", "d", "e", "f", "g", "h">>

Contains(s, t) == \E j \in 1..Len(s) : s[j] = t

\* urlparse(url).path: the part before the query string.
RECURSIVE UrlPath(_)
UrlPath(u) ==
  IF u = <<>> \/ Head(u) = "Q" THEN <<>> ELSE <<Head(u)>> \o UrlPath(Tail(u))

\* str.split('/product-files/'): the pieces between the markers.
RECURSIVE SplitPF(_, _)
SplitPF(s, cur) ==
  IF s = <<>> THEN <<cur>>
  ELSE IF Head(s) = "PF" THEN <<cur>> \o SplitPF(Tail(s), <<>>)
  ELSE SplitPF(Tail(s), Append(cur, Head(s)))

\* The body runs in `try: ... except: return None`.  The bare except catches
\* KeyboardInterrupt too: when the operator's interrupt arrives while the URL
\* is parsed (interrupted = TRUE) the function returns None and main() goes
\* on.
extract_file_path(url, interrupted) ==
  LET path_parts == SplitPF(UrlPath(url), <<>>)
  IN  IF interrupted THEN None
      ELSE IF Len(path_parts) = 2 THEN path_parts[2] ELSE None

\* `if path:` is false for None and for the empty string.
Truthy(path) == path # None /\ path # <<>>

\* The URLs row k may hold: NULL, a URL without '3d-models' (it has a key all
\* the same), a matching URL with a key, and a matching URL with none (no
\* marker, two markers, a marker at the very end, a marker in the query string
\* only: one of them per row).
KeyedUrl(k) == <<"PF", "3D", Names[k]>>

OtherUrl(k) == <<"PF", Names[k]>>

KeylessUrl(k) ==
  CASE k % 4 = 1 -> <<"3D", Names[k]>>
    [] k % 4 = 2 -> <<"PF", "3D", "PF", Names[k]>>
    [] k % 4 = 3 -> <<"3D", Names[k], "PF">>
    [] OTHER     -> <<"3D", Names[k], "Q", "PF", Names[k]>>

UrlChoice(k, n) ==
  CASE n = 1 -> None
    [] n = 2 -> OtherUrl(k)
    [] n = 3 -> KeyedUrl(k)
    [] OTHER -> KeylessUrl(k)

\* ---------------------------------------------------------------- catalog

Ids == 1..MaxRecords

\* updated_at, in days: the first value is in the 7-14 day window (its closed
\* end), the second is not (its open end).  The sweep never reads the field:
\* its catalogs hold the first value.
Stamps(sc) ==
  IF sc = "sweep" THEN {Now - FOURTEEN_DAYS}
  ELSE {Now - FOURTEEN_DAYS, Now - SEVEN_DAYS}

Row(k, url, stamp) ==
  [id |-> k, item_code |-> Names[k], glb_url |-> url, updated_at |-> stamp]

\* .not_.is_('glb_url', 'null').like('glb_url', '%3d-models%')
Matches(row) == row.glb_url # None /\ Contains(row.glb_url, "3D")

\* .gte('updated_at', fourteen_days_ago).lt('updated_at', seven_days_ago)
InWindow(row) ==
  /\ row.updated_at >= Now - FOURTEEN_DAYS
  /\ row.updated_at < Now - SEVEN_DAYS

\* Where a row comes among the ids: the rows the like filter selects first,
\* then, in the test, the other rows with a URL before the rows with NULL.
Rank(sc, row) ==
  IF Matches(row) THEN 0
  ELSE IF sc = "sweep" \/ row.glb_url # None THEN 1 ELSE 2

\* What row k of a catalog of the sweep holds when the like filter does not
\* select it: every query of the sweep carries that filter (lines 57-61,
\* 95-99, 186-190), so NULL and a URL without '3d-models' are the same to it.
UnmatchedUrl(k) == IF k % 2 = 1 THEN None ELSE OtherUrl(k)

\* The catalogs a run may start with: every row holds one of its URLs and one
\* of the stamps (the first one where the like filter does not select the URL:
\* such a row is in no page, whatever its stamp).  The rows come by Rank: a
\* row the like filter does not select is in no page and a page keeps the
\* order of the others, and the count of the rows with a URL (the total query
\* of the test) does not depend on where they lie; the catalogs of the test
\* hold every number of rows of each kind.
Catalogs(sc) ==
  {cat \in {[k \in Ids |-> Row(k, UrlChoice(k, u[k]), st[k])] :
              u \in [Ids -> 1..4], st \in [Ids -> Stamps(sc)]} :
     \A k \in Ids :
       /\ Matches(cat[k]) \/ cat[k].updated_at = Now - FOURTEEN_DAYS
       /\ k > 1 => Rank(sc, cat[k - 1]) <= Rank(sc, cat[k])
       /\ sc = "sweep" =>
            (Matches(cat[k]) \/ cat[k].glb_url = UnmatchedUrl(k))}

\* The ids a query's filter selects: the sweep's, the test's.
Selected(cat, sc) ==
  {k \in Ids : Matches(cat[k]) /\ (sc = "test" => InWindow(cat[k]))}

\* The members of a set of ids, in ascending order.
RECURSIVE Ascending(_)
Ascending(S) ==
  IF S = {} THEN <<>>
  ELSE LET m == CHOOSE x \in S : \A y \in S : x <= y
       IN  <<m>> \o Ascending(S \ {m})

\* .limit(lim) with no ORDER BY: any lim of the selected rows (all of them when
\* there are fewer).  The rows of a page come in id order; every mix of URLs
\* along a page is covered by the catalogs.
Pages(cat, sc, lim) ==
  LET S == Selected(cat, sc)
      n == Min(lim, Cardinality(S))
  IN  {[j \in 1..n |-> cat[Ascending(T)[j]]] :
         T \in {U \in SUBSET S : Cardinality(U) = n}}

\* The loop over products that fills file_paths and product_ids.
\* sw holds the ids of the rows during whose extract_file_path call an
\* interrupt arrived.
RECURSIVE FilePaths(_, _)
FilePaths(prods, sw) ==
  IF prods = <<>> THEN <<>>
  ELSE LET path == extract_file_path(Head(prods).glb_url, Head(prods).id \in sw)
       IN  (IF Truthy(path) THEN <<path>> ELSE <<>>)
             \o FilePaths(Tail(prods), sw)

RECURSIVE ProductIds(_, _)
ProductIds(prods, sw) ==
  IF prods = <<>> THEN <<>>
  ELSE LET path == extract_file_path(Head(prods).glb_url, Head(prods).id \in sw)
       IN  (IF Truthy(path) THEN <<Head(prods).id>> ELSE <<>>)
             \o ProductIds(Tail(prods), sw)

\* The interrupts the extraction loop can swallow on a page: any set of its
\* rows whose URL has a key (on the other rows a swallowed interrupt changes
\* nothing: the function returns None for them anyway), of at most left rows.
Swallowable(prods, left) ==
  {sw \in SUBSET Range(ProductIds(prods, {})) : Cardinality(sw) <= left}

\* The mutant of SubBatch: a slice one key short, file_paths[i:i+SIZE-1].
SubBatchOneShort(paths, i) ==
  SubSeq(paths, i + 1, Min(i + STORAGE_BATCH_SIZE - 1, Len(paths)))

\* file_paths[i:i+STORAGE_BATCH_SIZE], i counted from 0.
SubBatch(paths, i) ==
  SubSeq(paths, i + 1, Min(i + STORAGE_BATCH_SIZE, Len(paths)))

\* What remove() can do: raise, return a list (of the objects it removed: none
\* for a key whose object is gone, so any number of them up to one per key),
\* or return something that is no list.
RemoveResponses(sub) ==
  {[kind |-> "raise", n |-> 0], [kind |-> "other", n |-> 0]}
    \cup {[kind |-> "list", n |-> r] : r \in 0..Len(sub)}

\* The mutant of Updated: the update without its .in_('id', ids) filter.
UpdatedEveryRow(cat, ids) == [k \in Ids |-> [cat[k] EXCEPT !.glb_url = None]]

\* The rows of cat after update({'glb_url': None}).in_('id', ids).
Updated(cat, ids) ==
  [k \in Ids |->
     IF k \in Range(ids) THEN [cat[k] EXCEPT !.glb_url = None] ELSE cat[k]]

\* ------------------------------------------------------------------ state

VARIABLES
  script,           \* which script runs: "sweep" or "test"
  catalog,          \* pending_products: id -> row
  pc,               \* where main() is
  raw_input,        \* what input() returned (None before the prompt)
  total_products,   \* sweep: count_response.count
  products,         \* response.data of the last page query
  file_paths,
  product_ids,
  i,                \* sweep: offset of the next sub-batch
  deleted_in_batch,
  failed_in_batch,
  updated_in_batch,
  total_deleted,
  total_updated,
  total_failed,
  batch_num,
  remaining,        \* sweep: verify_response.count
  deleted_count,    \* test
  updated_count,    \* test
  null_count,       \* test
  \* history of the run, read by the properties only
  catalog0,         \* the catalog main() started with
  calls,            \* remove calls of the current page: [keys, kind, n]
  updates,          \* update calls of the current page: [ids, ok]
  attempted,        \* every key ever passed to remove
  short_seen,       \* a fetched page held fewer than BATCH_SIZE rows
  verify_runs,      \* times the final count query ran
  upd_failed,       \* an update of the sweep raised
  keys_done,        \* keys of the pages that reached the update step
  uncounted,        \* of these keys, those in neither total_deleted nor
                    \* total_failed
  followed,         \* the totals and batch_num are exact: they are until
                    \* the loop fetches again after an update that raised
                    \* (rows then come round a second time, and the counters
                    \* grow without bound)
  turn,             \* the parity of the fetches that `continue` has led
                    \* straight to: with it every turn of that loop is a
                    \* step, also where batch_num stays
  swallowed,        \* the interrupts extract_file_path swallowed: page, the
                    \* ids of the rows of the last page it did so for; count,
                    \* how many it swallowed in the run
  retry_keys        \* the keys of the page being removed, not yet passed to
                    \* remove, that were in a sub-batch whose remove call
                    \* raised in the page before it (recorded the first time
                    \* rows come round again, when followed ends)

vars ==
  <<script, catalog, pc, raw_input, total_products, products, file_paths,
    product_ids, i, deleted_in_batch, failed_in_batch, updated_in_batch,
    total_deleted, total_updated, total_failed, batch_num, remaining,
    deleted_count, updated_count, null_count, catalog0, calls, updates,
    attempted, short_seen, verify_runs, upd_failed, keys_done,
    uncounted, followed, turn, swallowed, retry_keys>>

progVars ==
  <<total_products, products, file_paths, product_ids, i, deleted_in_batch,
    failed_in_batch, updated_in_batch, total_deleted, total_updated,
    total_failed, batch_num, remaining, deleted_count, updated_count,
    null_count>>

histVars ==
  <<calls, updates, attempted, short_seen, verify_runs, upd_failed, keys_done,
    uncounted,
    followed, swallowed, retry_keys>>

Init ==
  /\ script \in {"sweep", "test"}
  /\ catalog \in Catalogs(script)
  /\ catalog0 = catalog
  /\ pc = IF script = "sweep" THEN "count" ELSE "t_query"
  /\ raw_input = None
  /\ total_products = 0
  /\ products = <<>>
  /\ file_paths = <<>>
  /\ product_ids = <<>>
  /\ i = 0
  /\ deleted_in_batch = 0
  /\ failed_in_batch = 0
  /\ updated_in_batch = 0
  /\ total_deleted = 0
  /\ total_updated = 0
  /\ total_failed = 0
  /\ batch_num = 0
  /\ remaining = 0
  /\ deleted_count = 0
  /\ updated_count = 0
  /\ null_count = 0
  /\ calls = <<>>
  /\ updates = <<>>
  /\ attempted = {}
  /\ short_seen = FALSE
  /\ verify_runs = 0
  /\ upd_failed = FALSE
  /\ keys_done = 0
  /\ uncounted = 0
  /\ followed = TRUE
  /\ turn = 0
  /\ swallowed = [page |-> {}, count |-> 0]
  /\ retry_keys = {}

\* A query, update, remove or input() raised an Exception outside every try
\* block: it reaches `except Exception` around main(), which prints it; the
\* process ends.
Crash ==
  /\ pc' = "crashed"
  /\ UNCHANGED <<turn, script, catalog, catalog0, raw_input>>
  /\ UNCHANGED progVars
  /\ UNCHANGED histVars

\* The operator interrupts the run (Ctrl-C) between two calls, in a sleep or
\* at the prompt: KeyboardInterrupt is no Exception, no try block of main()
\* catches it, and it reaches `except KeyboardInterrupt` around main(), which
\* prints "Interrupted by user"; the process ends.
Interrupt ==
  /\ pc' = "interrupted"
  /\ UNCHANGED <<turn, script, catalog, catalog0, raw_input>>
  /\ UNCHANGED progVars
  /\ UNCHANGED histVars

\* ------------------------------------------------------------- the sweep

\* The count query, and the exit when nothing matches.
Count ==
  /\ pc = "count"
  /\ \/ Crash
     \/ Interrupt
     \/ /\ total_products' = Cardinality(Selected(catalog, "sweep"))
        /\ pc' = IF total_products' = 0 THEN "empty" ELSE "confirm"
        /\ UNCHANGED <<turn, script, catalog, catalog0, raw_input, products,
                       file_paths, product_ids, i, deleted_in_batch,
                       failed_in_batch, updated_in_batch, total_deleted,
                       total_updated, total_failed, batch_num, remaining,
                       deleted_count, updated_count, null_count>>
        /\ UNCHANGED histVars

\* The prompt and the comparison with 'DELETE ALL'; input() raises EOFError
\* when stdin is at its end, KeyboardInterrupt on Ctrl-C.
Confirm ==
  /\ pc = "confirm"
  /\ \/ Crash
     \/ Interrupt
     \/ /\ \E raw \in Inputs :
             /\ raw_input' = raw
             /\ pc' = IF Accepted("sweep", raw) THEN "fetch" ELSE "cancelled"
        /\ UNCHANGED <<turn, script, catalog, catalog0>>
        /\ UNCHANGED progVars
        /\ UNCHANGED histVars

\* The keys of the sub-batches whose remove call raised, among the calls cs.
RaisedKeys(cs) ==
  UNION {Range(cs[j].keys) : j \in {m \in 1..Len(cs) : cs[m].kind = "raise"}}

\* The top of the while loop: batch_num += 1, the page query, the extraction
\* of the paths, and the two early ways round the loop (break, continue).  The
\* run may be interrupted in the sleep before it, the query may raise or be
\* interrupted, and the extraction swallows the interrupts that arrive in it.
Fetch ==
  /\ pc = "fetch"
  /\ \/ Interrupt
     \/ /\ batch_num' = IF followed
                        THEN Sat(batch_num + 1, MaxBatches) ELSE Untracked
        /\ pc' \in {"crashed", "interrupted"}
        /\ UNCHANGED <<turn, script, catalog, catalog0, raw_input, total_products,
                       products, file_paths, product_ids, i, deleted_in_batch,
                       failed_in_batch, updated_in_batch, total_deleted,
                       total_updated, total_failed, remaining, deleted_count,
                       updated_count, null_count>>
        /\ UNCHANGED histVars
     \/ \E page \in Pages(catalog, "sweep", BATCH_SIZE) :
        \E sw \in Swallowable(page, MaxSwallowed - swallowed.count) :
          /\ batch_num' = IF followed /\ ~upd_failed
                          THEN Sat(batch_num + 1, MaxBatches) ELSE Untracked
          /\ turn' = IF page # <<>> /\ FilePaths(page, sw) = <<>>
                     THEN 1 - turn ELSE 0
          /\ products' = page
          /\ swallowed' = [page |-> sw,
                            count |-> swallowed.count + Cardinality(sw)]
          /\ followed' = (followed /\ ~upd_failed)
          /\ IF followed'
             THEN UNCHANGED <<total_deleted, total_updated, total_failed,
                              keys_done, uncounted>>
             ELSE /\ total_deleted' = Untracked
                  /\ total_updated' = Untracked
                  /\ total_failed' = Untracked
                  /\ keys_done' = Untracked
                  /\ uncounted' = Untracked
          /\ short_seen' = (short_seen \/ Len(page) < BATCH_SIZE)
          /\ retry_keys' = IF followed
                            THEN RaisedKeys(calls)
                                   \cap Range(FilePaths(page, sw))
                            ELSE {}
          /\ calls' = <<>>
          /\ updates' = <<>>
          /\ IF page = <<>>
             THEN /\ pc' = "summary"
                  /\ UNCHANGED <<file_paths, product_ids, i, deleted_in_batch,
                                 failed_in_batch>>
             ELSE /\ file_paths' = FilePaths(page, sw)
                  /\ product_ids' = ProductIds(page, sw)
                  /\ IF file_paths' = <<>>
                     THEN /\ pc' = "fetch"
                          /\ UNCHANGED <<i, deleted_in_batch, failed_in_batch>>
                     ELSE /\ pc' = "remove"
                          /\ i' = 0
                          /\ deleted_in_batch' = 0
                          /\ failed_in_batch' = 0
          /\ UNCHANGED <<script, catalog, catalog0, raw_input, total_products,
                         updated_in_batch, remaining, deleted_count,
                         updated_count, null_count, attempted, verify_runs,
                         upd_failed>>

\* The mutant of CountedAsDeleted: the sub-batch counts whole, whatever came back.
CountedAsDeletedWhole(resp, sub) == Len(sub)

\* What a remove call adds to the deleted count when it does not raise.
CountedAsDeleted(resp, sub) ==
  IF resp.kind = "list" THEN resp.n ELSE Len(sub)

\* The mutant of RemoveStep: an exception of remove() leaves the sub-batch loop.
RemoveStepAbort(resp) ==
  LET sub_batch == SubBatch(file_paths, i)
  IN  /\ attempted' = attempted \cup Range(sub_batch)
      /\ retry_keys' = retry_keys \ Range(sub_batch)
      /\ calls' = Append(calls, [keys |-> sub_batch, kind |-> resp.kind,
                                  n |-> resp.n])
      /\ IF resp.kind = "raise"
         THEN /\ failed_in_batch' = failed_in_batch + Len(sub_batch)
              /\ UNCHANGED deleted_in_batch
              /\ i' = i
              /\ pc' = "update"
         ELSE /\ deleted_in_batch' =
                   deleted_in_batch + CountedAsDeleted(resp, sub_batch)
              /\ UNCHANGED failed_in_batch
              /\ i' = i + STORAGE_BATCH_SIZE
              /\ pc' = IF i' < Len(file_paths) THEN "remove" ELSE "update"

\* One turn of the sub-batch loop: the remove call, its try/except, and the
\* step of range(0, len(file_paths), STORAGE_BATCH_SIZE).
RemoveStep(resp) ==
  LET sub_batch == SubBatch(file_paths, i)
  IN  /\ attempted' = attempted \cup Range(sub_batch)
      /\ retry_keys' = retry_keys \ Range(sub_batch)
      /\ calls' = Append(calls, [keys |-> sub_batch, kind |-> resp.kind,
                                  n |-> resp.n])
      /\ IF resp.kind = "raise"
         THEN /\ failed_in_batch' = failed_in_batch + Len(sub_batch)
              /\ UNCHANGED deleted_in_batch
         ELSE /\ deleted_in_batch' =
                   deleted_in_batch + CountedAsDeleted(resp, sub_batch)
              /\ UNCHANGED failed_in_batch
      /\ i' = i + STORAGE_BATCH_SIZE
      /\ pc' = IF i' < Len(file_paths) THEN "remove" ELSE "update"

\* The operator interrupts a remove call that was issued with the keys sub:
\* the call is on record, nothing is counted, and main() ends.
RemoveInterrupted(sub) ==
  /\ attempted' = attempted \cup Range(sub)
  /\ retry_keys' = retry_keys \ Range(sub)
  /\ calls' = Append(calls, [keys |-> sub, kind |-> "interrupt", n |-> 0])
  /\ pc' = "interrupted"
  /\ UNCHANGED <<turn, script, catalog, catalog0, raw_input, updates,
                 short_seen, verify_runs, upd_failed, keys_done, uncounted,
                 followed,
                 swallowed>>
  /\ UNCHANGED progVars

\* The operator interrupts an update call that was issued on the ids: the
\* call is on record and main() ends; the request had been applied by then, or
\* it had not.
UpdateInterrupted(ids) ==
  /\ updates' = Append(updates, [ids |-> ids, ok |-> FALSE])
  /\ catalog' \in {catalog, Updated(catalog, ids)}
  /\ pc' = "interrupted"
  /\ UNCHANGED <<turn, script, catalog0, raw_input, calls, attempted,
                 short_seen, verify_runs, upd_failed, keys_done, uncounted,
                 followed,
                 swallowed, retry_keys>>
  /\ UNCHANGED progVars

Remove ==
  /\ pc = "remove"
  /\ \/ Interrupt
     \/ RemoveInterrupted(SubBatch(file_paths, i))
     \/ /\ \E resp \in RemoveResponses(SubBatch(file_paths, i)) :
             RemoveStep(resp)
        /\ UNCHANGED <<turn, script, catalog, catalog0, raw_input,
                       total_products, products, file_paths, product_ids,
                       updated_in_batch, total_deleted, total_updated,
                       total_failed, batch_num, remaining, deleted_count,
                       updated_count, null_count, updates, short_seen,
                       verify_runs, upd_failed, keys_done, uncounted,
                       followed,
                       swallowed>>

\* The mutant of UpdateIds: only the ids whose sub-batch remove did not raise.
UpdateIdsOfRemoved ==
  LET kept == {j \in 1..Len(product_ids) :
                 calls[((j - 1) \div STORAGE_BATCH_SIZE) + 1].kind # "raise"}
      RECURSIVE Pick(_)
      Pick(j) ==
        IF j > Len(product_ids) THEN <<>>
        ELSE (IF j \in kept THEN <<product_ids[j]>> ELSE <<>>) \o Pick(j + 1)
  IN  Pick(1)

\* The ids the page's update names.
UpdateIds == product_ids

\* The mutant of AfterUpdate: the loop ends only on an empty page.
AfterUpdateFetchAgain == "fetch"

\* Where the loop goes after the update step.
AfterUpdate == IF Len(products) < BATCH_SIZE THEN "summary" ELSE "fetch"

\* The mutant of UpdateStep: no try block around the update, so that its
\* exception ends main() before the totals are added.
UpdateStepUncaught(ok, applied) ==
  /\ updates' = Append(updates, [ids |-> UpdateIds, ok |-> ok])
  /\ IF ok
     THEN /\ catalog' = Updated(catalog, UpdateIds)
          /\ updated_in_batch' = Len(UpdateIds)
          /\ UNCHANGED upd_failed
          /\ IF followed
             THEN /\ total_deleted' = total_deleted + deleted_in_batch
                  /\ total_failed' = total_failed + failed_in_batch
                  /\ total_updated' = total_updated + updated_in_batch'
                  /\ keys_done' = keys_done + Len(file_paths)
                  /\ uncounted' = uncounted + Len(file_paths)
                                     - deleted_in_batch - failed_in_batch
             ELSE UNCHANGED <<total_deleted, total_failed, total_updated,
                              keys_done, uncounted>>
          /\ pc' = AfterUpdate
     ELSE /\ catalog' = IF applied THEN Updated(catalog, UpdateIds)
                                    ELSE catalog
          /\ UNCHANGED <<updated_in_batch, total_deleted, total_failed,
                         total_updated, keys_done, uncounted>>
          /\ upd_failed' = TRUE
          /\ pc' = "crashed"

\* The update of the page, its try/except, the totals, and the end-of-page
\* test.  The try block spans execute() and the len() of its response: ok says
\* that both returned, applied that the service changed the rows.  An
\* exception (ok false) comes before the service applied the update or after
\* it, and either way the except branch sets updated_in_batch to 0.
UpdateStep(ok, applied) ==
  /\ updates' = Append(updates, [ids |-> UpdateIds, ok |-> ok])
  /\ catalog' = IF applied THEN Updated(catalog, UpdateIds) ELSE catalog
  /\ IF ok
     THEN /\ updated_in_batch' = Len(UpdateIds)
          /\ UNCHANGED upd_failed
     ELSE /\ updated_in_batch' = 0
          /\ upd_failed' = TRUE
  /\ IF followed
     THEN /\ total_deleted' = total_deleted + deleted_in_batch
          /\ total_failed' = total_failed + failed_in_batch
          /\ total_updated' = total_updated + updated_in_batch'
          /\ keys_done' = keys_done + Len(file_paths)
          /\ uncounted' = uncounted + Len(file_paths)
                             - deleted_in_batch - failed_in_batch
     ELSE UNCHANGED <<total_deleted, total_failed, total_updated, keys_done,
                      uncounted>>
  /\ pc' = AfterUpdate

Update ==
  /\ pc = "update"
  /\ \/ Interrupt
     \/ UpdateInterrupted(UpdateIds)
     \/ /\ \E ok, applied \in BOOLEAN : (ok => applied) /\ UpdateStep(ok, applied)
        /\ UNCHANGED <<turn, script, catalog0, raw_input, total_products,
                       products, file_paths, product_ids, i, deleted_in_batch,
                       failed_in_batch, batch_num, remaining, deleted_count,
                       updated_count, null_count, calls, attempted,
                       short_seen, verify_runs, followed,
                       swallowed, retry_keys>>

\* The final summary and the verification count query.
Verify ==
  /\ pc = "summary"
  /\ \/ Crash
     \/ Interrupt
     \/ /\ remaining' = Cardinality(Selected(catalog, "sweep"))
        /\ verify_runs' = verify_runs + 1
        /\ pc' = "done"
        /\ UNCHANGED <<turn, script, catalog, catalog0, raw_input, total_products,
                       products, file_paths, product_ids, i, deleted_in_batch,
                       failed_in_batch, updated_in_batch, total_deleted,
                       total_updated, total_failed, batch_num, deleted_count,
                       updated_count, null_count, calls, updates, attempted,
                       short_seen, upd_failed, keys_done,
                       uncounted, followed,
                       swallowed, retry_keys>>

\* ------------------------------------------------------ the 10-record test

\* Step 1 and step 2: the page query, the extraction of the paths (with the
\* interrupts it swallows), and the return when no path was extracted.
TestQuery ==
  /\ pc = "t_query"
  /\ \/ Crash
     \/ Interrupt
     \/ \E page \in Pages(catalog, "test", TEST_LIMIT) :
        \E sw \in Swallowable(page, MaxSwallowed - swallowed.count) :
          /\ products' = page
          /\ swallowed' = [page |-> sw,
                            count |-> swallowed.count + Cardinality(sw)]
          /\ IF page = <<>>
             THEN /\ pc' = "t_total"
                  /\ UNCHANGED <<file_paths, product_ids>>
             ELSE /\ file_paths' = FilePaths(page, sw)
                  /\ product_ids' = ProductIds(page, sw)
                  /\ pc' = IF file_paths' = <<>> THEN "aborted" ELSE "t_confirm"
          /\ UNCHANGED <<turn, script, catalog, catalog0, raw_input, total_products,
                         i, deleted_in_batch, failed_in_batch,
                         updated_in_batch, total_deleted, total_updated,
                         total_failed, batch_num, remaining, deleted_count,
                         updated_count, null_count, calls, updates,
                         attempted, short_seen, verify_runs, upd_failed,
                         keys_done, uncounted, followed, retry_keys>>

\* The count of the rows with a glb_url, printed when the window is empty.
TestTotal ==
  /\ pc = "t_total"
  /\ \/ Crash
     \/ Interrupt
     \/ /\ total_products' =
             Cardinality({k \in Ids : catalog[k].glb_url # None})
        /\ pc' = "nothing"
        /\ UNCHANGED <<turn, script, catalog, catalog0, raw_input, products,
                       file_paths, product_ids, i, deleted_in_batch,
                       failed_in_batch, updated_in_batch, total_deleted,
                       total_updated, total_failed, batch_num, remaining,
                       deleted_count, updated_count, null_count>>
        /\ UNCHANGED histVars

\* Step 3: the prompt and the comparison with 'yes'; input() raises EOFError
\* when stdin is at its end, KeyboardInterrupt on Ctrl-C.
TestConfirm ==
  /\ pc = "t_confirm"
  /\ \/ Crash
     \/ Interrupt
     \/ /\ \E raw \in Inputs :
             /\ raw_input' = raw
             /\ pc' = IF Accepted("test", raw) THEN "t_remove" ELSE "cancelled"
        /\ UNCHANGED <<turn, script, catalog, catalog0>>
        /\ UNCHANGED progVars
        /\ UNCHANGED histVars

\* The mutant of TestRemove: an exception of remove() is printed and main()
\* goes on to the update, as the sweep does.
TestRemoveThenUpdate ==
  /\ pc = "t_remove"
  /\ \/ Interrupt
     \/ RemoveInterrupted(file_paths)
     \/ /\ \E resp \in RemoveResponses(file_paths) :
             /\ attempted' = attempted \cup Range(file_paths)
             /\ calls' = Append(calls, [keys |-> file_paths,
                                         kind |-> resp.kind, n |-> resp.n])
             /\ pc' = "t_update"
             /\ IF resp.kind = "raise"
                THEN UNCHANGED deleted_count
                ELSE deleted_count' = CountedAsDeleted(resp, file_paths)
        /\ UNCHANGED <<turn, script, catalog, catalog0, raw_input,
                       total_products, products, file_paths, product_ids, i,
                       deleted_in_batch, failed_in_batch, updated_in_batch,
                       total_deleted, total_updated, total_failed, batch_num,
                       remaining, updated_count, null_count, updates,
                       short_seen, verify_runs, upd_failed, keys_done,
                       uncounted, followed,
                       swallowed, retry_keys>>

\* Step 4: one remove call with every path; an exception ends main(), and so
\* does an interrupt.
TestRemove ==
  /\ pc = "t_remove"
  /\ \/ Interrupt
     \/ RemoveInterrupted(file_paths)
     \/ /\ \E resp \in RemoveResponses(file_paths) :
             /\ attempted' = attempted \cup Range(file_paths)
             /\ calls' = Append(calls, [keys |-> file_paths,
                                         kind |-> resp.kind, n |-> resp.n])
             /\ IF resp.kind = "raise"
                THEN /\ pc' = "failed"
                     /\ UNCHANGED deleted_count
                ELSE /\ pc' = "t_update"
                     /\ deleted_count' = CountedAsDeleted(resp, file_paths)
        /\ UNCHANGED <<turn, script, catalog, catalog0, raw_input,
                       total_products, products, file_paths, product_ids, i,
                       deleted_in_batch, failed_in_batch, updated_in_batch,
                       total_deleted, total_updated, total_failed, batch_num,
                       remaining, updated_count, null_count, updates,
                       short_seen, verify_runs, upd_failed, keys_done,
                       uncounted, followed,
                       swallowed, retry_keys>>

\* Step 5: the update; an exception ends main(), and so does an interrupt.  As
\* in the sweep the try block spans execute() and the len() of its response:
\* the exception comes before the service applied the update or after it.
TestUpdate ==
  /\ pc = "t_update"
  /\ \/ Interrupt
     \/ UpdateInterrupted(product_ids)
     \/ /\ \E ok, applied \in BOOLEAN :
             /\ ok => applied
             /\ updates' = Append(updates, [ids |-> product_ids, ok |-> ok])
             /\ catalog' = IF applied THEN Updated(catalog, product_ids)
                                      ELSE catalog
             /\ IF ok
                THEN /\ updated_count' = Len(product_ids)
                     /\ pc' = "t_verify"
                ELSE /\ UNCHANGED updated_count
                     /\ pc' = "failed"
        /\ UNCHANGED <<turn, script, catalog0, raw_input, total_products,
                       products, file_paths, product_ids, i, deleted_in_batch,
                       failed_in_batch, updated_in_batch, total_deleted,
                       total_updated, total_failed, batch_num, remaining,
                       deleted_count, null_count, calls, attempted,
                       short_seen, verify_runs, upd_failed, keys_done,
                       uncounted, followed,
                       swallowed, retry_keys>>

\* Step 6: the rows of product_ids are read back and the NULLs counted.
TestVerify ==
  /\ pc = "t_verify"
  /\ \/ Crash
     \/ Interrupt
     \/ /\ null_count' =
             Cardinality({k \in Range(product_ids) : catalog[k].glb_url = None})
        /\ pc' = "done"
        /\ UNCHANGED <<turn, script, catalog, catalog0, raw_input, total_products,
                       products, file_paths, product_ids, i, deleted_in_batch,
                       failed_in_batch, updated_in_batch, total_deleted,
                       total_updated, total_failed, batch_num, remaining,
                       deleted_count, updated_count>>
        /\ UNCHANGED histVars

\* ---------------------------------------------------------- specifications

Next ==
  \/ Count
  \/ Confirm
  \/ Fetch
  \/ Remove
  \/ Update
  \/ Verify
  \/ TestQuery
  \/ TestTotal
  \/ TestConfirm
  \/ TestRemove
  \/ TestUpdate
  \/ TestVerify

Spec == Init /\ [][Next]_vars

\* main() is one sequential thread: while a statement remains, the next one
\* runs.  Nothing makes a failing service call succeed later.
FairSpec == Spec /\ WF_vars(Next)

\* ------------------------------------------------------------ properties

CeilDiv(a, b) == (a + b - 1) \div b

\* A key can be derived from the URL: the marker occurs exactly once in its
\* path, and text follows it.
Derivable(url) ==
  LET path == UrlPath(url)
  IN  /\ url # None
      /\ Cardinality({j \in 1..Len(path) : path[j] = "PF"}) = 1
      /\ path[Len(path)] # "PF"

\* The rows the sweep's predicate selected when the run began, and their number.
Matching0 == Selected(catalog0, "sweep")

N0 == Cardinality(Matching0)

\* A remove or an update call has been issued.
Destructive == attempted # {} \/ updates # <<>>

\* C1, as stated: no remove call and no update call is issued, and no row is
\* changed, unless the operator's input is exactly the required literal
\* ('DELETE ALL' for the sweep, 'yes' for the test).
C1_ExactLiteralOnly ==
  (Destructive \/ catalog # catalog0) => raw_input = Literal(script)

\* C1, amended: no remove call and no update call is issued unless the input
\* equals the literal once its surrounding whitespace is stripped (sweep) and,
\* in the test, once it is lower-cased as well; after any other input the run
\* is cancelled with no call issued and no row changed.
C1_ConfirmationGate ==
  LET normal ==
        IF script = "sweep" THEN strip(raw_input) ELSE lower(strip(raw_input))
  IN  /\ (Destructive \/ catalog # catalog0) =>
           (raw_input # None /\ normal = Literal(script))
      /\ (raw_input # None /\ normal # Literal(script)) =>
           (pc = "cancelled" /\ ~Destructive /\ catalog = catalog0)

\* A row was set to NULL after an input that is not the literal itself.
C1_Witness ==
  /\ catalog # catalog0
  /\ attempted # {}
  /\ raw_input # Literal(script)

\* No call of the sweep has raised so far: no query, no remove, no update;
\* and the operator has sent no interrupt, neither one that ended the run nor
\* one that extract_file_path swallowed.
NoFailure ==
  /\ pc \notin {"crashed", "interrupted"}
  /\ swallowed.count = 0
  /\ ~upd_failed
  /\ failed_in_batch = 0
  /\ total_failed = 0

\* The sweep runs on matching rows that all have a key, and no call has raised.
C2_Pre ==
  /\ script = "sweep"
  /\ \A k \in Matching0 : Derivable(catalog0[k].glb_url)
  /\ NoFailure

\* C2, as stated: under C2_Pre the number of page fetches never exceeds
\* ceil(N / BATCH_SIZE).
C2_CeilBound == C2_Pre => batch_num <= CeilDiv(N0, BATCH_SIZE)

\* C2, amended: under C2_Pre the number of page fetches never exceeds
\* floor(N / BATCH_SIZE) + 1 (so the loop ends), and a run that ends has made
\* exactly that many: ceil(N / BATCH_SIZE) unless N is a multiple of
\* BATCH_SIZE, and one more when it is.  (The second conjunct says that the
\* bound lies below MaxBatches, where batch_num is exact.)
C2_FetchBound ==
  C2_Pre =>
    /\ batch_num <= (N0 \div BATCH_SIZE) + 1
    /\ (N0 \div BATCH_SIZE) + 1 < MaxBatches
    /\ pc \in {"summary", "done"} => batch_num = (N0 \div BATCH_SIZE) + 1

\* A sweep of a multiple of BATCH_SIZE rows has ended, one fetch above the ceiling.
C2_Witness ==
  /\ C2_Pre
  /\ pc = "done"
  /\ N0 >= 1
  /\ N0 % BATCH_SIZE = 0
  /\ batch_num = CeilDiv(N0, BATCH_SIZE) + 1

\* C3: once a fetched page held fewer than BATCH_SIZE rows, no further page is
\* fetched, and the verification query runs exactly once when the run is done.
C3_ShortPageEndsLoop ==
  /\ short_seen => pc # "fetch"
  /\ (script = "sweep" /\ pc = "done") => verify_runs = 1

\* The key of a URL that has one: the text of its path after the marker.
KeyOf(url) ==
  LET path == UrlPath(url)
      m == CHOOSE j \in 1..Len(path) : path[j] = "PF"
  IN  SubSeq(path, m + 1, Len(path))

\* The rows of a page whose URL yielded a key, in page order: their ids, their
\* keys.  A URL yields a key when it has one and no interrupt arrived while it
\* was parsed (sw: the ids of the rows where one did).
RECURSIVE KeyedIdsOf(_, _)
KeyedIdsOf(prods, sw) ==
  IF prods = <<>> THEN <<>>
  ELSE (IF Derivable(Head(prods).glb_url) /\ Head(prods).id \notin sw
        THEN <<Head(prods).id>> ELSE <<>>)
         \o KeyedIdsOf(Tail(prods), sw)

RECURSIVE KeysOf(_, _)
KeysOf(prods, sw) ==
  IF prods = <<>> THEN <<>>
  ELSE (IF Derivable(Head(prods).glb_url) /\ Head(prods).id \notin sw
        THEN <<KeyOf(Head(prods).glb_url)>> ELSE <<>>)
         \o KeysOf(Tail(prods), sw)

\* The j-th run of STORAGE_BATCH_SIZE keys of a key sequence (the last one may
\* be shorter), and the number of such runs.
Slice(paths, j) ==
  SubSeq(paths, (j - 1) * STORAGE_BATCH_SIZE + 1,
         Min(j * STORAGE_BATCH_SIZE, Len(paths)))

Slices(paths) == CeilDiv(Len(paths), STORAGE_BATCH_SIZE)

\* The key lists of the page's remove calls, one after the other.
RECURSIVE KeysInCallOrder(_)
KeysInCallOrder(cs) ==
  IF cs = <<>> THEN <<>> ELSE Head(cs).keys \o KeysInCallOrder(Tail(cs))

\* The step C4 is about: a remove call of the sweep raises.
C4_RaiseStep ==
  /\ script = "sweep"
  /\ pc = "remove"
  /\ Len(calls') = Len(calls) + 1
  /\ calls'[Len(calls')].kind = "raise"

C4_PassedAgain ==
  /\ script = "sweep"
  /\ pc = "remove"
  /\ Len(calls') = Len(calls) + 1
  /\ Range(calls'[Len(calls')].keys) \cap attempted # {}

C5_ReconcilerIds ==
  script = "sweep" =>
    /\ Len(updates) <= 1
    /\ \A j \in 1..Len(updates) :
         /\ updates[j].ids = KeyedIdsOf(products, swallowed.page)
         /\ updates[j].ok =>
              \A k \in Range(KeyedIdsOf(products, swallowed.page)) :
                catalog[k].glb_url = None
    /\ pc \in {"remove", "update"} => updates = <<>>
    /\ ( /\ pc \in {"fetch", "summary", "done"}
         /\ KeyedIdsOf(products, swallowed.page) # <<>> ) =>
         Len(updates) = 1

\* A page of two keys or more was updated although a remove call had raised.
C5_Witness ==
  /\ script = "sweep"
  /\ Len(updates) = 1
  /\ updates[1].ok
  /\ Len(updates[1].ids) >= 2
  /\ \E j \in 1..Len(calls) : calls[j].kind = "raise"
  /\ \A k \in Range(updates[1].ids) : catalog[k].glb_url = None

\* C6: for a page with n >= 1 derived keys, by the time of the update exactly
\* ceil(n / STORAGE_BATCH_SIZE) remove calls were issued; their key lists, in
\* call order, make up the derived keys of the page in page order; every call
\* but the last carries STORAGE_BATCH_SIZE keys, the last the remainder,
\* which is not empty.
C6_SubBatchSizing ==
  (script = "sweep" /\ pc = "update") =>
    LET n == Len(file_paths)
        m == Len(calls)
    IN  /\ n >= 1
        /\ file_paths = KeysOf(products, swallowed.page)
        /\ m = CeilDiv(n, STORAGE_BATCH_SIZE)
        /\ KeysInCallOrder(calls) = file_paths
        /\ \A j \in 1..(m - 1) : Len(calls[j].keys) = STORAGE_BATCH_SIZE
        /\ Len(calls[m].keys) = n - (m - 1) * STORAGE_BATCH_SIZE
        /\ Len(calls[m].keys) \in 1..STORAGE_BATCH_SIZE

\* A page whose last remove call carried a remainder shorter than a sub-batch.
C6_Witness ==
  /\ script = "sweep"
  /\ pc = "update"
  /\ Len(calls) >= 2
  /\ Len(calls[Len(calls)].keys) < STORAGE_BATCH_SIZE

\* The step C7 is about: the update of a page of the sweep raises (an
\* Exception: the operator's interrupt of an update is another step).
C7_UpdateRaises ==
  /\ script = "sweep"
  /\ pc = "update"
  /\ pc' # "interrupted"
  /\ Len(updates') = Len(updates) + 1
  /\ ~updates'[Len(updates')].ok

\* C7, amended: when the update of a page raises, the rows it names are left
\* as they were or, when the exception came after the service had applied the
\* update, all have glb_url NULL; either way the page adds 0 to the updated
\* total and its deleted and failed counts to theirs, and the run goes on: to
\* the final summary (from where only the verification query is left) after a
\* page shorter than BATCH_SIZE, to the next fetch after a full page.  There
\* the rows of the failed page are still selected when the update was not
\* applied, and when it was, those it named are selected no more.  Only the
\* operator's interrupt ends the run before its summary.
C7_UpdateFailureTolerated ==
  /\ [][C7_UpdateRaises =>
          /\ updated_in_batch' = 0
          /\ catalog' \in {catalog, Updated(catalog, product_ids)}
          /\ followed =>
               /\ total_updated' = total_updated
               /\ total_deleted' = total_deleted + deleted_in_batch
               /\ total_failed' = total_failed + failed_in_batch
          /\ pc' = IF Len(products) < BATCH_SIZE THEN "summary" ELSE "fetch"
          /\ (pc' = "fetch" /\ catalog' = catalog) =>
               {products[j].id : j \in 1..Len(products)}
                 \subseteq Selected(catalog', "sweep")
          /\ catalog' # catalog =>
               Range(product_ids) \cap Selected(catalog', "sweep") = {}]_vars
  /\ [][(script = "sweep" /\ pc = "summary")
          => pc' \in {"done", "crashed", "interrupted"}]_vars

\* The update of a full page raised and the loop fetched again; the update of
\* the last page raised too, after it had been applied: the run ended with no
\* matching row left.
C7_Witness ==
  /\ script = "sweep"
  /\ upd_failed
  /\ ~followed
  /\ pc = "done"
  /\ remaining = 0
  /\ Len(updates) = 1
  /\ ~updates[1].ok

\* C7, as stated, on catalogs whose matching rows all have a key: once an
\* update of the sweep has raised, the run goes on to reach the end of main()
\* (the summary and the verification pass, the exception of a query, or the
\* operator's interrupt).
C7_ReachesSummary ==
  [](( /\ script = "sweep"
       /\ upd_failed
       /\ \A k \in Matching0 : Derivable(catalog0[k].glb_url))
     => <>(pc \in {"done", "crashed", "interrupted"}))

\* The matching rows with a key and those without, as the run began.
Keyed0 == {k \in Matching0 : Derivable(catalog0[k].glb_url)}

Keyless0 == Matching0 \ Keyed0

\* The result C8 states: the keys passed to remove are those of the matching
\* rows with a key, these rows and no others have lost their URL, and the
\* verification query ran once and counted the matching rows without a key.
C8_Result ==
  /\ attempted = {KeyOf(catalog0[k].glb_url) : k \in Keyed0}
  /\ \A k \in Ids :
       catalog[k] = IF k \in Keyed0
                    THEN [catalog0[k] EXCEPT !.glb_url = None] ELSE catalog0[k]
  /\ verify_runs = 1
  /\ remaining = Cardinality(Keyless0)

\* C8: a confirmed sweep of matching rows that fit in one page, in which no
\* call raises, comes to its end with the result C8_Result.
C8_EndToEnd ==
  []((script = "sweep" /\ pc = "fetch" /\ batch_num = 0 /\ N0 <= BATCH_SIZE)
     => <>(~NoFailure \/ (pc = "done" /\ C8_Result)))

\* What holds of C8 in the code: a run as in C8 that does reach its end has the
\* result C8_Result there.
C8_ResultAtEnd ==
  (script = "sweep" /\ pc = "done" /\ N0 <= BATCH_SIZE /\ NoFailure) => C8_Result

\* C9: the catalog keeps its rows; id, item_code and updated_at never change;
\* glb_url is either what it was when the run began or NULL, NULL only for a
\* row the script's predicate selected and whose URL yields a key; and a step
\* changes a row only by setting a non-NULL glb_url to NULL, and only a row of
\* the page fetched last whose URL yields a key.
C9_Frame ==
  /\ [](/\ DOMAIN catalog = Ids
        /\ \A k \in Ids :
             /\ catalog[k].id = catalog0[k].id
             /\ catalog[k].item_code = catalog0[k].item_code
             /\ catalog[k].updated_at = catalog0[k].updated_at
             /\ DOMAIN catalog[k] = DOMAIN catalog0[k]
             /\ \/ catalog[k].glb_url = catalog0[k].glb_url
                \/ /\ catalog[k].glb_url = None
                   /\ k \in Selected(catalog0, script)
                   /\ Derivable(catalog0[k].glb_url))
  /\ [][\A k \in Ids :
          catalog'[k] # catalog[k] =>
            /\ catalog[k].glb_url # None
            /\ catalog'[k] = [catalog[k] EXCEPT !.glb_url = None]
            /\ Derivable(catalog[k].glb_url)
            /\ \E j \in 1..Len(products) : products[j] = catalog[k]]_vars

\* After a remove call that raised, a row lost its URL while a matching row
\* without a key and a row with a URL the predicate does not match kept theirs.
C9_Witness ==
  /\ \E j \in 1..Len(calls) : calls[j].kind = "raise"
  /\ \E k \in Ids : catalog[k].glb_url = None /\ catalog0[k].glb_url # None
  /\ \E k \in Keyless0 : catalog[k] = catalog0[k]
  /\ \E k \in Ids \ Matching0 :
       catalog0[k].glb_url # None /\ catalog[k] = catalog0[k]

\* What the remove calls made so far in the page add up to: the keys of the
\* calls that raised; and, of the others, the length of the returned list, or
\* the number of keys when what was returned is no list.
RECURSIVE FailedIn(_)
FailedIn(cs) ==
  IF cs = <<>> THEN 0
  ELSE (IF Head(cs).kind = "raise" THEN Len(Head(cs).keys) ELSE 0)
         + FailedIn(Tail(cs))

RECURSIVE DeletedIn(_)
DeletedIn(cs) ==
  IF cs = <<>> THEN 0
  ELSE (CASE Head(cs).kind = "raise" -> 0
          [] Head(cs).kind = "list"  -> Head(cs).n
          [] OTHER                   -> Len(Head(cs).keys))
         + DeletedIn(Tail(cs))

\* C10, as stated: at the update of a page deleted_in_batch + failed_in_batch
\* is the number of derived keys of the page, and the two totals add up to the
\* keys of the pages that reached the update step.
C10_WholeSubBatches ==
  script = "sweep" =>
    /\ pc = "update" => deleted_in_batch + failed_in_batch = Len(file_paths)
    /\ followed => total_deleted + total_failed = keys_done

\* C10, amended: a sub-batch whose remove call raises is counted as wholly
\* failed; one whose call returns a list adds the length of the list to the
\* deleted count, any other adds its number of keys.  So deleted_in_batch +
\* failed_in_batch is at most the number of keys passed so far, and equal to it
\* when no returned list is shorter than its sub-batch; and the totals add up
\* to the keys of the pages that reached the update step less the keys the
\* returned lists left out.
C10_StorageAccounting ==
  script = "sweep" =>
    /\ pc \in {"remove", "update"} =>
         /\ failed_in_batch = FailedIn(calls)
         /\ deleted_in_batch = DeletedIn(calls)
         /\ deleted_in_batch + failed_in_batch <= Len(KeysInCallOrder(calls))
         /\ (\A j \in 1..Len(calls) :
               calls[j].kind = "list" => calls[j].n = Len(calls[j].keys))
              => deleted_in_batch + failed_in_batch
                   = Len(KeysInCallOrder(calls))
    /\ followed =>
         /\ total_deleted + total_failed + uncounted = keys_done
         /\ uncounted >= 0

\* A page at its update with one sub-batch failed and a returned list that was
\* shorter than its sub-batch.
C10_Witness ==
  /\ script = "sweep"
  /\ pc = "update"
  /\ followed
  /\ failed_in_batch > 0
  /\ deleted_in_batch + failed_in_batch < Len(file_paths)

\* A remove call of the current page raised.
RemoveRaised == \E j \in 1..Len(calls) : calls[j].kind = "raise"

\* The storage step of the current page is over: main() is past the remove
\* calls and past the update that follows them in the text of the script, and
\* the operator has not interrupted it.
PastUpdateStep ==
  IF script = "sweep" THEN pc \notin {"remove", "update", "interrupted"}
  ELSE pc \notin {"t_remove", "t_update", "interrupted"}

\* C11, as stated: in both scripts, once a remove call has raised after the
\* confirmation, the update that sets glb_url to NULL on the targeted ids is
\* still issued: main() does not get past the update step without it.
C11_UpdateAfterRaiseInBoth ==
  (RemoveRaised /\ PastUpdateStep) =>
    (updates # <<>> /\ updates[1].ids = product_ids)

\* C11, amended: the sweep issues the update of the page, on every id of the
\* page that has a key, whether or not a remove call of the page raised; in
\* the 10-record test a remove call that raises ends main(): no update is
\* issued and no row is changed, and the update is issued only after a remove
\* call that returned.
C11_UpdateAfterRaise ==
  /\ (script = "sweep" /\ RemoveRaised /\ PastUpdateStep) =>
       (Len(updates) = 1 /\ updates[1].ids = product_ids)
  /\ (script = "test" /\ RemoveRaised) =>
       (pc = "failed" /\ updates = <<>> /\ catalog = catalog0)
  /\ (script = "test" /\ updates # <<>>) =>
       (Len(calls) = 1 /\ calls[1].kind # "raise"
          /\ updates[1].ids = product_ids)

\* The 10-record test after a confirmed run whose remove call raised: main()
\* has returned, the keys were passed to remove, and every row still holds its
\* URL.
C11_Witness ==
  /\ script = "test"
  /\ Accepted("test", raw_input)
  /\ RemoveRaised
  /\ attempted # {}
  /\ pc = "failed"
  /\ \A k \in Range(product_ids) : catalog[k].glb_url # None

====
